---- MODULE Spec2Model ----
(***************************************************************************)
(* Model of scripts/fetch_news.py: the feed-collection pipeline            *)
(* (fetch_feed_with_retry, normalize_dt, collect_items).                   *)
(*                                                                         *)
(* Instants are integers (hours).  A date value carried by a feed entry    *)
(* is a record [kind, wall, off]: kind "none" (attribute absent or empty), *)
(* "bad" (a value the date parser rejects), "naive" (a date string without *)
(* an offset), "aware" (a date string with a UTC offset of `off` hours),   *)
(* "struct" (a pre-parsed time tuple).  The stray print/return fragments   *)
(* interleaved in the source file (lines 129, 133-134, 142, 153, 157,      *)
(* 174-175, 198-199, 211) carry no state and are not modelled.             *)
(***************************************************************************)
EXTENDS Integers, Sequences, FiniteSets, TLC

\* ------------------------------------------------------------ constants

\* fetch_feed_with_retry(url, max_retries=3)
max_retries == 3

\* RECENT_HOURS = 24
RECENT_HOURS == 24

\* MAX_ITEMS_PER_DAY is 80 in the source; the model scales it down so that
\* truncation happens within the bounded number of entries.
MAX_ITEMS_PER_DAY == 2

\* The largest number of entries one fetched feed carries in the model.
MaxEntries == 3

\* FEEDS: the source lists 14 urls; the model keeps two.
FEEDS == <<"feedA", "feedB">>

\* The instants datetime.now(local_tz) may return at the start of a run.
RunStarts == {1000}

\* ------------------------------------------------------------ variables

VARIABLES
    now_local,     \* collect_items: now_local (run start)
    pc,            \* control position
    feed,          \* collect_items: 1-based index into FEEDS of the current url
    plan,          \* how the feed source answers each attempt of the current fetch
    attempt,       \* fetch_feed_with_retry: 0-based attempt index
    sleeps,        \* the time.sleep(seconds) calls of the current fetch, in order
    fp,            \* the value fetch_feed_with_retry returned
    served,        \* which attempt and which path produced that value
    fetched,       \* per processed feed: "ok" or "none" (what the fetch yielded)
    n,             \* entries of fp.entries processed so far
    locals,        \* the loop body's link, title and dt for the last entry, and
                   \* whether that entry carried no usable date at all
    items,         \* collect_items: items, as collected (before deduplication)
    good,          \* history: <<source, link>> of every entry seen with a link, a
                   \* title and a resolved date not before the cutoff
    unique_items,  \* collect_items: list(unique_items.values())
    result         \* collect_items: the returned list

vars == <<now_local, pc, feed, plan, attempt, sleeps, fp, served, fetched, n, locals,
          items, good, unique_items, result>>

\* ------------------------------------------------------------ date values

NoVal == [kind |-> "none", wall |-> 0, off |-> 0]

BadVal == [kind |-> "bad", wall |-> 0, off |-> 0]

NaiveStr(t) == [kind |-> "naive", wall |-> t, off |-> 0]

AwareStr(t, o) == [kind |-> "aware", wall |-> t + o, off |-> o]

StructTime(t) == [kind |-> "struct", wall |-> t, off |-> 0]

\* Python truthiness of an attribute value: None and "" are falsy.
Truthy(v) == v.kind # "none"

\* `a or b`
Or(a, b) == IF Truthy(a) THEN a ELSE b

\* The result of normalize_dt: None, or an aware instant.
NoDt == [ok |-> FALSE, t |-> 0]

\* The loop body's locals before the first entry of a feed.
NoLocals == [link |-> "", title |-> "", dt |-> NoDt, undated |-> FALSE]

Dt(t) == [ok |-> TRUE, t |-> t]

\* normalize_dt(dt_val): None for a falsy or unparseable value; a naive
\* datetime is taken as UTC; an aware one keeps its instant; a struct_time is
\* read as wall-clock fields and taken as UTC.  astimezone keeps the instant.
normalize_dt(v) ==
    CASE v.kind = "none"   -> NoDt
      [] v.kind = "bad"    -> NoDt
      [] v.kind = "naive"  -> Dt(v.wall)
      [] v.kind = "aware"  -> Dt(v.wall - v.off)
      [] v.kind = "struct" -> Dt(v.wall)

\* cutoff = now_local - timedelta(hours=RECENT_HOURS)
Cutoff(now) == now - RECENT_HOURS

\* ------------------------------------------------------------ inputs

Links == {"l1", "l2", "l3"}

\* The instants entries are dated with: one hour before the cutoff, the
\* cutoff itself, and the run start.
Times(now) == {Cutoff(now) - 1, Cutoff(now), now}

\* <<published, updated, published_parsed, updated_parsed>> of an entry.
DateShapes(now) ==
    UNION {{ <<NaiveStr(t), NoVal, NoVal, NoVal>>,
             <<AwareStr(t, 1), NoVal, NoVal, NoVal>>,
             <<NoVal, NaiveStr(t), NoVal, NoVal>>,
             <<NoVal, NoVal, StructTime(t), NoVal>>,
             <<BadVal, NoVal, NoVal, StructTime(t)>> } : t \in Times(now)}
    \cup { <<NoVal, NoVal, NoVal, NoVal>>,
           <<BadVal, BadVal, BadVal, BadVal>>,
           <<NoVal, BadVal, NoVal, BadVal>>,
           <<BadVal, NaiveStr(Cutoff(now) - 1), NoVal, NoVal>>,
           <<NaiveStr(now), NaiveStr(Cutoff(now) - 1), StructTime(Cutoff(now) - 1), NoVal>> }

\* Dated by a plain published string at the run start.
PlainShapes(now) == { <<NaiveStr(now), NoVal, NoVal, NoVal>> }

MkEntry(l, ti, d) ==
    [link |-> l, title |-> ti, published |-> d[1], updated |-> d[2],
     published_parsed |-> d[3], updated_parsed |-> d[4]]

\* The entries a feed may carry: every date shape under link l1, plainly
\* dated entries under the other links, and entries without link or title.
RawEntries(now) ==
    { MkEntry("l1", "T", d) : d \in DateShapes(now) }
    \cup { MkEntry(l, "T", d) : l \in Links \ {"l1"}, d \in PlainShapes(now) }
    \cup { MkEntry("", "T", <<NaiveStr(now), NoVal, NoVal, NoVal>>),
           MkEntry("l1", "", <<NaiveStr(now), NoVal, NoVal, NoVal>>) }

RawEntriesAt == [now \in RunStarts |-> RawEntries(now)]

\* Every date attribute of the entry is absent or unparseable.
Undated(e) ==
    /\ e.published.kind \in {"none", "bad"}
    /\ e.updated.kind \in {"none", "bad"}
    /\ e.published_parsed.kind \in {"none", "bad"}
    /\ e.updated_parsed.kind \in {"none", "bad"}

\* How the feed source answers one attempt: the HTTP GET succeeds; the GET
\* raises and feedparser.parse(url) returns a feed (with or without entries);
\* both raise.
Outcomes == {"http_ok", "fallback_ok", "both_fail"}

Plans == [1..max_retries -> Outcomes]

NoPlan == [k \in 1..max_retries |-> "both_fail"]

\* ------------------------------------------------------------ fetch_feed_with_retry

\* None
NoFeed == [ok |-> FALSE, url |-> ""]

\* The parsed feed of url u
Feed(u) == [ok |-> TRUE, url |-> u]

NotServed == [attempt |-> 0, via |-> "none"]

Served(a, via) == [attempt |-> a, via |-> via]

RECURSIVE Pow2(_)
Pow2(k) == IF k = 0 THEN 1 ELSE 2 * Pow2(k - 1)

\* A loop that stops one attempt short.
HasAttemptsLeftTwo(a) == a < max_retries - 1

\* for attempt in range(max_retries)
HasAttemptsLeft(a) == a < max_retries

\* A backoff that also sleeps after the last attempt.
BackoffAlways(a, s) == Append(s, Pow2(a))

\* if attempt < max_retries - 1: time.sleep(2 ** attempt)
Backoff(a, s) == IF a < max_retries - 1 THEN Append(s, Pow2(a)) ELSE s

\* fp = fetch_feed_with_retry(url): the call, its first loop test
BeginFetch ==
    /\ pc = "loop"
    /\ feed <= Len(FEEDS)
    /\ \E p \in Plans : plan' = p
    /\ attempt' = 0
    /\ sleeps' = <<>>
    /\ pc' = IF HasAttemptsLeft(0) THEN "requests" ELSE "exhausted"
    /\ UNCHANGED <<now_local, feed, fp, served, fetched, n, locals, items, good,
                   unique_items, result>>

\* requests.get, raise_for_status, feedparser.parse(response.content), return feed
TryRequests ==
    /\ pc = "requests"
    /\ IF plan[attempt + 1] = "http_ok"
          THEN /\ fp' = Feed(FEEDS[feed])
               /\ served' = Served(attempt + 1, "requests")
               /\ pc' = "fetched"
          ELSE /\ UNCHANGED <<fp, served>>
               /\ pc' = "fallback"
    /\ UNCHANGED <<now_local, feed, plan, attempt, sleeps, fetched, n, locals,
                   items, good, unique_items, result>>

\* except Exception: return feedparser.parse(url)
FallbackParse ==
    /\ pc = "fallback"
    /\ IF plan[attempt + 1] = "fallback_ok"
          THEN /\ fp' = Feed(FEEDS[feed])
               /\ served' = Served(attempt + 1, "feedparser")
               /\ pc' = "fetched"
          ELSE /\ UNCHANGED <<fp, served>>
               /\ pc' = "failed"
    /\ UNCHANGED <<now_local, feed, plan, attempt, sleeps, fetched, n, locals,
                   items, good, unique_items, result>>

\* outer except: warn, back off, continue with the next attempt
AttemptFailed ==
    /\ pc = "failed"
    /\ sleeps' = Backoff(attempt, sleeps)
    /\ attempt' = attempt + 1
    /\ pc' = IF HasAttemptsLeft(attempt + 1) THEN "requests" ELSE "exhausted"
    /\ UNCHANGED <<now_local, feed, plan, fp, served, fetched, n, locals, items, good,
                   unique_items, result>>

\* all attempts failed: return None
GiveUp ==
    /\ pc = "exhausted"
    /\ fp' = NoFeed
    /\ served' = NotServed
    /\ pc' = "fetched"
    /\ UNCHANGED <<now_local, feed, plan, attempt, sleeps, fetched, n, locals,
                   items, good, unique_items, result>>

\* ------------------------------------------------------------ collect_items: per feed

\* A failed feed ends the whole run with nothing collected.
AbortOnFailedFeed ==
    /\ pc = "fetched"
    /\ ~fp.ok
    /\ fetched' = Append(fetched, "none")
    /\ feed' = Len(FEEDS) + 1
    /\ items' = <<>>
    /\ good' = good
    /\ pc' = "loop"
    /\ plan' = NoPlan
    /\ attempt' = 0
    /\ sleeps' = <<>>
    /\ served' = NotServed
    /\ UNCHANGED <<now_local, fp, n, locals, unique_items, result>>

\* if not fp or not hasattr(fp, 'entries'): continue
SkipFailedFeed ==
    /\ pc = "fetched"
    /\ ~fp.ok
    /\ fetched' = Append(fetched, "none")
    /\ feed' = feed + 1
    /\ pc' = "loop"
    /\ plan' = NoPlan
    /\ attempt' = 0
    /\ sleeps' = <<>>
    /\ served' = NotServed
    /\ UNCHANGED <<now_local, fp, n, locals, items, good, unique_items, result>>

\* the feed was fetched: enter `for entry in fp.entries`
EnterEntries ==
    /\ pc = "fetched"
    /\ fp.ok
    /\ fetched' = Append(fetched, "ok")
    /\ n' = 0
    /\ pc' = "entries"
    /\ plan' = NoPlan
    /\ attempt' = 0
    /\ sleeps' = <<>>
    /\ served' = NotServed
    /\ UNCHANGED <<now_local, feed, fp, locals, items, good, unique_items, result>>

\* published = entry.published or entry.updated
PublishedOf(e) == Or(e.published, e.updated)

\* published_parsed = entry.published_parsed or entry.updated_parsed
PublishedParsedOf(e) == Or(e.published_parsed, e.updated_parsed)

\* dt = normalize_dt(published) or normalize_dt(published_parsed)
ParsedDt(e) ==
    IF normalize_dt(PublishedOf(e)).ok
       THEN normalize_dt(PublishedOf(e))
       ELSE normalize_dt(PublishedParsedOf(e))

\* The default is left out: dt stays None.
ResolveDtNoDefault(e, now) == ParsedDt(e)

\* ... if not dt: dt = now_local
ResolveDt(e, now) == IF ParsedDt(e).ok THEN ParsedDt(e) ELSE Dt(now)

\* The boundary instant counts as old.
IsOldInclusive(dt, cutoff) == dt <= cutoff

\* if dt < cutoff: continue
IsOld(dt, cutoff) == dt < cutoff

\* The item appended for an entry.
ItemOf(e, dt, src) == [link |-> e.link, published |-> dt, source |-> src]

\* One iteration of `for entry in fp.entries` (lines 130-177).  An entry
\* without link or title is skipped before its date is looked at.  A dt of
\* None makes the comparison raise; the per-entry handler skips the entry.
ProcessEntry ==
    /\ pc = "entries"
    /\ n < MaxEntries
    /\ \E e \in RawEntriesAt[now_local] :
         LET dt == ResolveDt(e, now_local)
         IN  IF e.link = "" \/ e.title = ""
                THEN /\ locals' = [link |-> e.link, title |-> e.title, dt |-> NoDt,
                                   undated |-> FALSE]
                     /\ items' = items
                     /\ good' = good
                ELSE /\ locals' = [link |-> e.link, title |-> e.title, dt |-> dt,
                                   undated |-> Undated(e)]
                     /\ items' =
                          IF ~dt.ok THEN items
                          ELSE IF IsOld(dt.t, Cutoff(now_local)) THEN items
                          ELSE Append(items, ItemOf(e, dt.t, FEEDS[feed]))
                     /\ good' = IF dt.ok /\ dt.t >= Cutoff(now_local)
                                   THEN good \cup {<<FEEDS[feed], e.link>>}
                                   ELSE good
    /\ n' = n + 1
    /\ UNCHANGED <<now_local, pc, feed, plan, attempt, sleeps, fp, served, fetched,
                   unique_items, result>>

\* fp.entries is exhausted: on to the next url
EndFeed ==
    /\ pc = "entries"
    /\ feed' = feed + 1
    /\ locals' = NoLocals
    /\ pc' = "loop"
    /\ UNCHANGED <<now_local, plan, attempt, sleeps, fp, served, fetched, n, items, good,
                   unique_items, result>>

\* ------------------------------------------------------------ collect_items: aggregation

HasLink(s, l) == \E j \in 1..Len(s) : s[j].link = l

RECURSIVE DedupFrom(_, _, _)
DedupFrom(s, i, acc) ==
    IF i > Len(s) THEN acc
    ELSE DedupFrom(s, i + 1, IF HasLink(acc, s[i].link) THEN acc ELSE Append(acc, s[i]))

RECURSIVE OverwriteFrom(_, _, _)
OverwriteFrom(s, i, acc) ==
    IF i > Len(s) THEN acc
    ELSE OverwriteFrom(s, i + 1,
            IF HasLink(acc, s[i].link)
               THEN [j \in 1..Len(acc) |-> IF acc[j].link = s[i].link THEN s[i] ELSE acc[j]]
               ELSE Append(acc, s[i]))

\* unique_items[item["link"]] = item without the membership test: a later
\* item overwrites the earlier one under the same key.
DedupOverwrite(s) == OverwriteFrom(s, 1, <<>>)

\* No deduplication at all.
DedupNone(s) == s

\* unique_items = {}; for item in items: if link not in unique_items: insert;
\* list(unique_items.values()) in insertion order
DedupByLink(s) == DedupFrom(s, 1, <<>>)

\* x goes behind every element of acc that satisfies Before(element, x)
RECURSIVE PlaceAfter(_, _, _)
PlaceAfter(acc, x, k) ==
    IF k = 0 THEN <<x>> \o acc
    ELSE SubSeq(acc, 1, k) \o <<x>> \o SubSeq(acc, k + 1, Len(acc))

\* list.sort(reverse=True) is stable: x goes behind the elements that are
\* newer or equally dated.
InsertDesc(acc, x) ==
    LET ks == {k \in 1..Len(acc) : acc[k].published >= x.published}
    IN  PlaceAfter(acc, x, Cardinality(ks))

InsertDescUnstable(acc, x) ==
    LET ks == {k \in 1..Len(acc) : acc[k].published > x.published}
    IN  PlaceAfter(acc, x, Cardinality(ks))

InsertAsc(acc, x) ==
    LET ks == {k \in 1..Len(acc) : acc[k].published <= x.published}
    IN  PlaceAfter(acc, x, Cardinality(ks))

RECURSIVE SortUnstableFrom(_, _, _)
SortUnstableFrom(s, i, acc) ==
    IF i > Len(s) THEN acc ELSE SortUnstableFrom(s, i + 1, InsertDescUnstable(acc, s[i]))

RECURSIVE SortAscFrom(_, _, _)
SortAscFrom(s, i, acc) ==
    IF i > Len(s) THEN acc ELSE SortAscFrom(s, i + 1, InsertAsc(acc, s[i]))

RECURSIVE SortFrom(_, _, _)
SortFrom(s, i, acc) ==
    IF i > Len(s) THEN acc ELSE SortFrom(s, i + 1, InsertDesc(acc, s[i]))

\* A descending sort that reverses the order of equally dated items.
SortDescUnstable(s) == SortUnstableFrom(s, 1, <<>>)

\* The sort without reverse=True.
SortAsc(s) == SortAscFrom(s, 1, <<>>)

\* items.sort(key=lambda x: x["published"], reverse=True)
SortDesc(s) == SortFrom(s, 1, <<>>)

\* An off-by-one slice.
TruncateOneMore(s) ==
    SubSeq(s, 1, IF Len(s) < MAX_ITEMS_PER_DAY + 1 THEN Len(s) ELSE MAX_ITEMS_PER_DAY + 1)

\* items = items[:MAX_ITEMS_PER_DAY]
Truncate(s) ==
    SubSeq(s, 1, IF Len(s) < MAX_ITEMS_PER_DAY THEN Len(s) ELSE MAX_ITEMS_PER_DAY)

\* The recency test of the entry loop, applied to a list of items.
RecencyFilter(s, now) == SelectSeq(s, LAMBDA x : ~IsOld(x.published, Cutoff(now)))

\* The aggregation steps applied to a list of items.
AggregateList(s, now) == Truncate(SortDesc(DedupByLink(RecencyFilter(s, now))))

\* FEEDS is exhausted: deduplicate, sort, truncate, return (lines 181-212)
Aggregate ==
    /\ pc = "loop"
    /\ feed > Len(FEEDS)
    /\ unique_items' = DedupByLink(items)
    /\ result' = Truncate(SortDesc(DedupByLink(items)))
    /\ pc' = "done"
    /\ UNCHANGED <<now_local, feed, plan, attempt, sleeps, fp, served, fetched, n,
                   locals, items, good>>

\* ------------------------------------------------------------ specification

Init ==
    /\ now_local \in RunStarts
    /\ pc = "loop"
    /\ feed = 1
    /\ plan = NoPlan
    /\ attempt = 0
    /\ sleeps = <<>>
    /\ fp = NoFeed
    /\ served = NotServed
    /\ fetched = <<>>
    /\ n = 0
    /\ locals = NoLocals
    /\ items = <<>>
    /\ good = {}
    /\ unique_items = <<>>
    /\ result = <<>>

Next ==
    \/ BeginFetch
    \/ TryRequests
    \/ FallbackParse
    \/ AttemptFailed
    \/ GiveUp
    \/ SkipFailedFeed
    \/ EnterEntries
    \/ ProcessEntry
    \/ EndFeed
    \/ Aggregate

Spec == Init /\ [][Next]_vars

\* ------------------------------------------------------------ properties

Done == pc = "done"

LinksOf(s) == {s[i].link : i \in 1..Len(s)}

Contains(s, x) == \E i \in 1..Len(s) : s[i] = x

CountLink(s, l) == Cardinality({i \in 1..Len(s) : s[i].link = l})

FirstIndex(s, l) == CHOOSE i \in 1..Len(s) : s[i].link = l /\ \A j \in 1..(i - 1) : s[j].link # l

LastIndex(s, l) == CHOOSE i \in 1..Len(s) : s[i].link = l /\ \A j \in (i + 1)..Len(s) : s[j].link # l

\* The position in a duplicate-free list s of its item with link l.
IndexOf(s, l) == CHOOSE i \in 1..Len(s) : s[i].link = l

Smaller(a, b) == IF a < b THEN a ELSE b

\* The loop body has just handled an entry that has a link and a title.
HandledEntry == pc = "entries" /\ n > 0 /\ locals.link # "" /\ locals.title # ""

\* C1 as stated: for every link among the collected items exactly one item
\* with that link is in the result, and it is the one collected last (taken
\* where truncation removes nothing).
C1_LastWins ==
    (Done /\ Len(unique_items) <= MAX_ITEMS_PER_DAY) =>
        \A l \in LinksOf(items) :
            /\ CountLink(result, l) = 1
            /\ Contains(result, items[LastIndex(items, l)])

\* C1 amended: for every link among the collected items exactly one item with
\* that link is in the deduplicated list, and it is the one collected FIRST in
\* processing order; the result holds at most one item with that link, only
\* that first one, and holds it whenever truncation removes nothing.
C1_FirstWins ==
    Done =>
        \A l \in LinksOf(items) :
            /\ CountLink(unique_items, l) = 1
            /\ Contains(unique_items, items[FirstIndex(items, l)])
            /\ CountLink(result, l) <= 1
            /\ \A i \in 1..Len(result) :
                 result[i].link = l => result[i] = items[FirstIndex(items, l)]
            /\ Len(unique_items) <= MAX_ITEMS_PER_DAY
                 => Contains(result, items[FirstIndex(items, l)])

\* Two different items with one link were collected, from two feeds, and the
\* earlier one is in the result.
C1_Witness ==
    /\ Done
    /\ \E i, j \in 1..Len(items) :
         /\ i < j
         /\ items[i].link = items[j].link
         /\ items[i].published # items[j].published
         /\ items[i].source # items[j].source
         /\ Contains(result, items[i])

\* C2: the returned list never holds two items with the same link.
C2_NoDuplicateLinks ==
    \A i, j \in 1..Len(result) : i # j => result[i].link # result[j].link

\* A link was collected more than once and the result holds two items.
C2_Witness ==
    /\ Done
    /\ Len(items) > Cardinality(LinksOf(items))
    /\ Len(result) >= 2

\* C3: the result is sorted by published descending (strictly when the dates
\* differ), equally dated items keep the order of the deduplicated list, and
\* the result is the head of that order: every item left out is older than, or
\* equally dated and later in the deduplicated list than, every item kept.
C3_SortedStable ==
    Done =>
        /\ \A i, j \in 1..Len(result) :
             i < j =>
               /\ result[i].published >= result[j].published
               /\ result[i].published # result[j].published
                    => result[i].published > result[j].published
               /\ result[i].published = result[j].published
                    => IndexOf(unique_items, result[i].link)
                         < IndexOf(unique_items, result[j].link)
        /\ \A i \in 1..Len(result) : Contains(unique_items, result[i])
        /\ \A k \in 1..Len(unique_items) :
             ~Contains(result, unique_items[k]) =>
               \A i \in 1..Len(result) :
                  \/ result[i].published > unique_items[k].published
                  \/ /\ result[i].published = unique_items[k].published
                     /\ IndexOf(unique_items, result[i].link) < k

\* The deduplicated list starts with its oldest item, truncation cut it, and
\* the result holds two equally dated items.
C3_Witness ==
    /\ Done
    /\ Len(unique_items) > MAX_ITEMS_PER_DAY
    /\ unique_items[1].published < unique_items[2].published
    /\ Len(result) >= 2
    /\ result[1].published = result[2].published

\* C4 as stated: with more than MAX_ITEMS_PER_DAY items collected the result
\* has exactly MAX_ITEMS_PER_DAY items.
C4_ExactlyMaxWhenMore ==
    (Done /\ Len(items) > MAX_ITEMS_PER_DAY) => Len(result) = MAX_ITEMS_PER_DAY

\* C4 amended: the result never has more than MAX_ITEMS_PER_DAY items; its
\* length is the number of distinct links collected, capped at
\* MAX_ITEMS_PER_DAY, so it is exactly MAX_ITEMS_PER_DAY when more than
\* MAX_ITEMS_PER_DAY distinct links were collected.
C4_BoundedOutput ==
    /\ Len(result) <= MAX_ITEMS_PER_DAY
    /\ Done => Len(result) = Smaller(Cardinality(LinksOf(items)), MAX_ITEMS_PER_DAY)

\* More distinct links than MAX_ITEMS_PER_DAY were collected.
C4_Witness ==
    /\ Done
    /\ Cardinality(LinksOf(items)) > MAX_ITEMS_PER_DAY
    /\ Len(result) = MAX_ITEMS_PER_DAY

\* C5: an entry with link and title whose resolved instant is exactly
\* run start - RECENT_HOURS passes the recency test and is appended to the
\* collected items with that instant; no item collected, deduplicated or
\* returned is dated before the cutoff.
C5_RecencyBoundary ==
    /\ (HandledEntry /\ locals.dt = Dt(now_local - 24)) =>
          /\ items # <<>>
          /\ items[Len(items)] =
               [link |-> locals.link, published |-> now_local - 24, source |-> FEEDS[feed]]
    /\ \A i \in 1..Len(items) : items[i].published >= now_local - 24
    /\ \A i \in 1..Len(unique_items) : unique_items[i].published >= now_local - 24
    /\ \A i \in 1..Len(result) : result[i].published >= now_local - 24

\* An entry dated exactly at the cutoff has just been handled and appended,
\* after an earlier entry of the run was skipped.
C5_Witness ==
    /\ HandledEntry
    /\ n >= 2
    /\ locals.dt = Dt(now_local - 24)
    /\ Len(items) = 1

\* C6: when both paths fail on the first and on the second attempt and the
\* third attempt succeeds, fetch_feed_with_retry returns the feed the third
\* attempt produced (not None, not an earlier return), after sleeping 1s and 2s.
C6_ThirdAttemptReturned ==
    (/\ pc = "fetched"
     /\ plan[1] = "both_fail"
     /\ plan[2] = "both_fail"
     /\ plan[3] # "both_fail") =>
        /\ fp = Feed(FEEDS[feed])
        /\ served.attempt = 3
        /\ served.via = (IF plan[3] = "http_ok" THEN "requests" ELSE "feedparser")
        /\ sleeps = <<1, 2>>

\* The fetch has returned against a source that failed twice and then
\* answered the fallback path.
C6_Witness ==
    /\ pc = "fetched"
    /\ plan = <<"both_fail", "both_fail", "fallback_ok">>
    /\ fp.ok

\* C7 as stated: with one feed failed and another fetched, every entry of the
\* fetched feed that has a link, a title and a recent date has its link in the
\* final result.
C7_AllRepresentedInResult ==
    (Done /\ \E a, b \in 1..Len(fetched) : fetched[a] = "none" /\ fetched[b] = "ok") =>
        \A g \in good : g[2] \in LinksOf(result)

\* C7 amended: a failed feed never ends the run: every feed of FEEDS is
\* fetched in turn, and every entry of a fetched feed that has a link, a title
\* and a recent date has its link in the deduplicated list, and in the final
\* result whenever the deduplicated list has at most MAX_ITEMS_PER_DAY items
\* (otherwise truncation may drop it).
C7_IsolationUpToTruncation ==
    Done =>
        /\ Len(fetched) = Len(FEEDS)
        /\ \A g \in good :
             /\ g[2] \in LinksOf(unique_items)
             /\ Len(unique_items) <= MAX_ITEMS_PER_DAY => g[2] \in LinksOf(result)

\* The first feed was fetched and gave an entry, the second failed all its
\* attempts, and the entry is in the result.
C7_Witness ==
    /\ Done
    /\ fetched = <<"ok", "none">>
    /\ good # {}
    /\ \A g \in good : g[2] \in LinksOf(result)

\* C8: the aggregation steps (recency filter with the same run start,
\* deduplication by link, sort by published descending, truncation) applied
\* to the returned list give that list back.
C8_Idempotent == Done => AggregateList(result, now_local) = result

\* The result was cut from a longer collection and holds two equally dated items.
C8_Witness ==
    /\ Done
    /\ Len(items) > Len(result)
    /\ Len(result) >= 2
    /\ result[1].published = result[2].published

\* C9: an entry with link and title whose date attributes are all absent or
\* unparseable is dated with the run start and appended to the collected items.
C9_NoDateDefault ==
    (HandledEntry /\ locals.undated) =>
        /\ locals.dt = Dt(now_local)
        /\ items # <<>>
        /\ items[Len(items)] =
             [link |-> locals.link, published |-> now_local, source |-> FEEDS[feed]]

\* An undated entry has just been handled in the second feed.
C9_Witness == HandledEntry /\ locals.undated /\ feed = 2 /\ Len(items) >= 2

FetchPcs == {"requests", "fallback", "failed", "exhausted"}

\* The sleeps 2^0 .. 2^(k-1)
BackoffPrefix(k) == [i \in 1..k |-> Pow2(i - 1)]

\* A bound on the steps the fetch still takes.
FetchRank ==
    CASE pc = "requests"  -> 3 * (3 - attempt) + 2
      [] pc = "fallback"  -> 3 * (3 - attempt) + 1
      [] pc = "failed"    -> 3 * (3 - attempt)
      [] pc = "exhausted" -> 1
      [] OTHER            -> 0

\* A step taken inside the fetch stays in it or returns, and lowers FetchRank.
FetchStepAdvances ==
    pc \in FetchPcs => (pc' \in (FetchPcs \cup {"fetched"}) /\ FetchRank' < FetchRank)

\* C10 as stated, the backoff giving 1s, 2s, 4s: when all three attempts have
\* failed the fetch has slept 1, 2 and 4 seconds.
C10_BackoffOneTwoFour == pc = "exhausted" => sleeps = <<1, 2, 4>>

\* C10 amended: the fetch makes at most 3 attempts and every step of it moves
\* it closer to its return; the attempts before the current one all failed on
\* both paths and each was followed by one sleep of 2^k seconds, so nothing is
\* slept between the HTTP failure and the fallback of one attempt; the sleeps
\* are 1s and 2s only: the third failed attempt is followed by no sleep, and
\* the fetch then returns None.
C10_BoundedRetry ==
    /\ [](/\ attempt <= 3
          /\ pc \in {"requests", "fallback", "failed"} =>
               /\ attempt < 3
               /\ sleeps = BackoffPrefix(attempt)
               /\ \A k \in 1..attempt : plan[k] = "both_fail"
               /\ pc # "requests" => plan[attempt + 1] # "http_ok"
               /\ pc = "failed" => plan[attempt + 1] = "both_fail"
          /\ pc = "exhausted" =>
               /\ attempt = 3
               /\ sleeps = <<1, 2>>
               /\ \A k \in 1..3 : plan[k] = "both_fail"
          /\ pc = "fetched" =>
               IF fp.ok
                  THEN /\ served.attempt \in 1..3
                       /\ plan[served.attempt] # "both_fail"
                       /\ sleeps = BackoffPrefix(served.attempt - 1)
                  ELSE /\ sleeps = <<1, 2>>
                       /\ \A k \in 1..3 : plan[k] = "both_fail")
    /\ [][FetchStepAdvances]_vars

\* The fetch has returned None after three failed attempts.
C10_Witness == pc = "fetched" /\ ~fp.ok /\ attempt = 3 /\ sleeps = <<1, 2>>

====
